---- MODULE Spec2Model ----
(***************************************************************************)
(* A model of lili-ia/image-processor (src/main.go): main runs the        *)
(* sequential runner and then the parallel pipeline over the same list of *)
(* paths.  The pipeline is one orchestrator goroutine, one load worker,   *)
(* numWorkers process workers and one save worker, coupled by three       *)
(* buffered channels and three WaitGroups.                                *)
(*                                                                         *)
(* A path is <<directory, base name>>.  An image is a sequence of pixels  *)
(* <<r, g, b, a>> of 8-bit channels.  The content of an output file is a  *)
(* record: the image whose JPEG encoding was written to it and whether    *)
(* the encoding was written completely.                                   *)
(***************************************************************************)
EXTENDS Integers, Sequences, FiniteSets, TLC

\* ------------------------------------------------------------- bounds
MaxFiles == 2
MaxWorkers == 2
MaxBurst == 6
FewWorkers == 1

\* ------------------------------------------------------ the environment
FileNames == <<"a.jpg", "b.jpg", "c.jpg", "d.jpg", "e.jpg", "f.jpg", "g.jpg",
               "h.jpg">>
Pixels == << <<200, 100, 50, 255>>, <<255, 255, 255, 255>>,
             <<0, 0, 0, 255>>, <<10, 240, 128, 255>> >>

InputDir == "input_images"
SeqDir == "output_sequential"
ParDir == "output_parallel"

\* What happens to one file: os.Open fails, image.Decode fails, os.Create
\* of its output fails, jpeg.Encode of its output fails, or nothing fails.
Outcomes == {"openfail", "decodefail", "createfail", "encodefail", "ok"}

Join(dir, base) == <<dir, base>>
Base(path) == path[2]

\* filepath.Glob(input_images/*.jpg): distinct paths of one directory, sorted.
Glob(n) == [k \in 1..n |-> Join(InputDir, FileNames[k])]

NoPath == <<"", "">>
NoImg == <<>>
NoTask == [FilePath |-> NoPath, Img |-> NoImg]
NoFile == [exists |-> FALSE, img |-> NoImg, complete |-> FALSE]

\* image.Decode of the file at path: a two-pixel image that differs per file.
Decode(path) ==
    LET k == CHOOSE j \in DOMAIN FileNames : FileNames[j] = Base(path)
    IN  <<Pixels[((k - 1) % Len(Pixels)) + 1], Pixels[((k + 1) % Len(Pixels)) + 1]>>

\* ------------------------------------------------- the pixel transforms
Min(a, b) == IF a < b THEN a ELSE b
Uint8(x) == x % 256

\* color.Color.RGBA() of an 8-bit opaque colour: 16-bit channels.
RGBA16(px) == <<px[1] * 257, px[2] * 257, px[3] * 257, px[4] * 257>>

\* The float arithmetic is modelled in exact thousandths; the exact values
\* are never within float rounding of an integer for the pixels used here.
GrayPixel(px) ==
    LET c == RGBA16(px)
        gray == Uint8(((299 * c[1] + 587 * c[2] + 114 * c[3]) \div 1000) \div 256)
    IN  <<gray, gray, gray, Uint8(c[4] \div 256)>>

toGrayscale(img) == [k \in DOMAIN img |-> GrayPixel(img[k])]

SepiaPixel(px) ==
    LET c == RGBA16(px)
        r8 == Uint8(c[1] \div 257)
        g8 == Uint8(c[2] \div 257)
        b8 == Uint8(c[3] \div 257)
        newR == (393 * r8 + 769 * g8 + 189 * b8) \div 1000
        newG == (349 * r8 + 686 * g8 + 168 * b8) \div 1000
        newB == (272 * r8 + 534 * g8 + 131 * b8) \div 1000
    IN  <<Uint8(Min(255, newR)), Uint8(Min(255, newG)), Uint8(Min(255, newB)),
          Uint8(c[4] \div 256)>>

toSepia(img) == [k \in DOMAIN img |-> SepiaPixel(img[k])]

\* ---------------------------------------------------------------- state
VARIABLES
    filePaths,    \* main: the globbed paths
    outcome,      \* the environment: what happens to each path's I/O
    numWorkers,   \* main: numCPU
    pc,           \* the main goroutine's position
    i,            \* the main goroutine's loop index
    seqTask,      \* runSequential: the path and image of this iteration
    files,        \* the file system: output path -> content
    open,         \* the open output files, by the runner that holds them
    log,          \* log.Printf lines: <<mode, path>> -> the kinds logged
    hist,         \* ghost: <<mode, path>> -> the stage events of the item
    cap,          \* the capacity of each channel
    chan,         \* the buffer of each channel
    closed,       \* whether each channel is closed
    wg,           \* the counter of each WaitGroup
    loadPc, loadHold,
    procPc, procHold,
    savePc, saveHold,
    fault,        \* a send on a closed channel has panicked
    run,          \* which run of the program this is, on the same file system
    firstFiles    \* ghost: the file system as the first run left it

vars == <<filePaths, outcome, numWorkers, pc, i, seqTask, files, open, log, hist,
          cap, chan, closed, wg, loadPc, loadHold, procPc, procHold,
          savePc, saveHold, fault, run, firstFiles>>

\* What no step of a run changes: its inputs, and which run it is.
envVars == <<filePaths, outcome, numWorkers, run, firstFiles>>
chanVars == <<cap, chan, closed>>
loadVars == <<loadPc, loadHold>>
procVars == <<procPc, procHold>>
saveVars == <<savePc, saveHold>>

Paths == {filePaths[k] : k \in DOMAIN filePaths}
Workers == 1..numWorkers
Modes == {"seq", "par"}
OutDir(mode) == IF mode = "seq" THEN SeqDir ELSE ParDir
OutPaths == {Join(OutDir(m), Base(p)) : m \in Modes, p \in Paths}

\* The state of a process that has just started, before main's first call.
Fresh ==
    /\ pc = "seqStart"
    /\ i = 0
    /\ seqTask = NoTask
    /\ open = [m \in Modes |-> {}]
    /\ log = [k \in Modes \X Paths |-> <<>>]
    /\ hist = [k \in Modes \X Paths |-> <<>>]
    /\ cap = [files |-> 0, tasks |-> 0, results |-> 0]
    /\ chan = [files |-> <<>>, tasks |-> <<>>, results |-> <<>>]
    /\ closed = [files |-> FALSE, tasks |-> FALSE, results |-> FALSE]
    /\ wg = [load |-> 0, process |-> 0, save |-> 0]
    /\ loadPc = "unstarted"
    /\ loadHold = NoTask
    /\ procPc = [w \in Workers |-> "unstarted"]
    /\ procHold = [w \in Workers |-> NoTask]
    /\ savePc = "unstarted"
    /\ saveHold = NoTask
    /\ fault = FALSE

\* The first run: the output directories hold no file yet.
FirstRun ==
    /\ files = [o \in OutPaths |-> NoFile]
    /\ run = 1
    /\ firstFiles = files

Init ==
    /\ \E n \in 0..MaxFiles : filePaths = Glob(n)
    /\ outcome \in [Paths -> Outcomes]
    /\ numWorkers \in 1..MaxWorkers
    /\ FirstRun
    /\ Fresh

\* ------------------------------------------------------------- helpers
Logged(mode, path, kind) ==
    [log EXCEPT ![<<mode, path>>] = Append(@, kind)]

Event(mode, path, ev) ==
    [hist EXCEPT ![<<mode, path>>] = Append(@, ev)]

Event2(mode, path, ev1, ev2) ==
    [hist EXCEPT ![<<mode, path>>] = Append(Append(@, ev1), ev2)]


\* ------------------------------------------------- the sequential runner
parUnchanged == <<cap, chan, closed, wg, loadPc, loadHold, procPc, procHold,
                  savePc, saveHold, fault>>

\* runSequential is entered: the output directory is made.
SeqStart ==
    /\ ~fault
    /\ pc = "seqStart"
    /\ pc' = "seqLoop"
    /\ i' = 1
    /\ UNCHANGED <<envVars, seqTask, files, open, log, hist, parUnchanged>>

\* for _, path := range filePaths
SeqLoop ==
    /\ ~fault
    /\ pc = "seqLoop"
    /\ IF i <= Len(filePaths)
       THEN /\ seqTask' = [FilePath |-> filePaths[i], Img |-> NoImg]
            /\ pc' = "seqLoad"
       ELSE /\ seqTask' = NoTask
            /\ pc' = "seqEnd"
    /\ UNCHANGED <<envVars, i, files, open, log, hist, parUnchanged>>

\* os.Open and image.Decode: either failure is logged and the loop continues.
SeqLoad ==
    /\ ~fault
    /\ pc = "seqLoad"
    /\ LET path == seqTask.FilePath IN
       CASE outcome[path] = "openfail" ->
              /\ log' = Logged("seq", path, "open")
              /\ hist' = Event("seq", path, "failed")
              /\ seqTask' = NoTask
              /\ i' = i + 1
              /\ pc' = "seqLoop"
         [] outcome[path] = "decodefail" ->
              /\ log' = Logged("seq", path, "decode")
              /\ hist' = Event("seq", path, "failed")
              /\ seqTask' = NoTask
              /\ i' = i + 1
              /\ pc' = "seqLoop"
         [] OTHER ->
              /\ seqTask' = [seqTask EXCEPT !.Img = Decode(path)]
              /\ hist' = Event("seq", path, "decoded")
              /\ pc' = "seqTransform"
              /\ UNCHANGED <<log, i>>
    /\ UNCHANGED <<envVars, files, open, parUnchanged>>

\* grayImg := toGrayscale(img); sepiaImg := toSepia(grayImg)
SeqTransform ==
    /\ ~fault
    /\ pc = "seqTransform"
    /\ seqTask' = [seqTask EXCEPT !.Img = toSepia(toGrayscale(@))]
    /\ hist' = Event2("seq", seqTask.FilePath, "gray", "sepia")
    /\ pc' = "seqCreate"
    /\ UNCHANGED <<envVars, i, files, open, log, parUnchanged>>

\* os.Create of the output path: a failure is logged and the loop continues;
\* otherwise the file exists, empty and open.
SeqCreate ==
    /\ ~fault
    /\ pc = "seqCreate"
    /\ LET path == seqTask.FilePath
           outputPath == Join(SeqDir, Base(path))
       IN  IF outcome[path] = "createfail"
           THEN /\ log' = Logged("seq", path, "create")
                /\ hist' = Event("seq", path, "failed")
                /\ seqTask' = NoTask
                /\ i' = i + 1
                /\ pc' = "seqLoop"
                /\ UNCHANGED <<files, open>>
           ELSE /\ files' = [files EXCEPT ![outputPath] =
                                [exists |-> TRUE, img |-> NoImg, complete |-> FALSE]]
                /\ open' = [open EXCEPT !["seq"] = @ \cup {outputPath}]
                /\ hist' = Event("seq", path, "created")
                /\ pc' = "seqEncode"
                /\ UNCHANGED <<log, seqTask, i>>
    /\ UNCHANGED <<envVars, parUnchanged>>

\* jpeg.Encode(outFile, sepiaImg, nil) writes after what the file holds, which
\* is nothing after os.Create; its error is not looked at.
SeqEncode ==
    /\ ~fault
    /\ pc = "seqEncode"
    /\ LET path == seqTask.FilePath
           outputPath == Join(SeqDir, Base(path))
       IN  IF outcome[path] = "encodefail"
           THEN /\ files' = [files EXCEPT ![outputPath] =
                                [exists |-> TRUE, img |-> @.img \o seqTask.Img, complete |-> FALSE]]
                /\ hist' = Event("seq", path, "encodeError")
           ELSE /\ files' = [files EXCEPT ![outputPath] =
                                [exists |-> TRUE, img |-> @.img \o seqTask.Img, complete |-> TRUE]]
                /\ hist' = Event("seq", path, "encoded")
    /\ pc' = "seqClose"
    /\ UNCHANGED <<envVars, i, seqTask, open, log, parUnchanged>>

\* outFile.Close(), and the next iteration.
SeqClose ==
    /\ ~fault
    /\ pc = "seqClose"
    /\ open' = [open EXCEPT !["seq"] = @ \ {Join(SeqDir, Base(seqTask.FilePath))}]
    /\ seqTask' = NoTask
    /\ i' = i + 1
    /\ pc' = "seqLoop"
    /\ UNCHANGED <<envVars, files, log, hist, parUnchanged>>

\* runSequential returns and main calls runParallelPipeline.
SeqEnd ==
    /\ ~fault
    /\ pc = "seqEnd"
    /\ pc' = "parStart"
    /\ UNCHANGED <<envVars, i, seqTask, files, open, log, hist, parUnchanged>>

runSequential ==
    \/ SeqStart
    \/ SeqLoop
    \/ SeqLoad
    \/ SeqTransform
    \/ SeqCreate
    \/ SeqEncode
    \/ SeqClose
    \/ SeqEnd


\* --------------------------------------------------- the parallel pipeline
workerVars == <<loadPc, loadHold, procPc, procHold, savePc, saveHold>>
fsVars == <<files, open, log, hist>>

\* Mutant of CanSend: a send never blocks (the buffer grows).
CanSendUnbounded(c) == TRUE

\* A send blocks while the buffer is full.  (A channel of capacity 0 only
\* exists here where it has no receiver or no sender, so no rendezvous is
\* modelled: a send on it blocks for ever.)
CanSend(c) == closed[c] \/ Len(chan[c]) < cap[c]

\* Mutant of ParStart: filesChan is made with the capacity of the other two.
ParStartNarrowFiles ==
    /\ ~fault
    /\ pc = "parStart"
    /\ cap' = [files |-> numWorkers, tasks |-> numWorkers, results |-> numWorkers]
    /\ chan' = [files |-> <<>>, tasks |-> <<>>, results |-> <<>>]
    /\ closed' = [files |-> FALSE, tasks |-> FALSE, results |-> FALSE]
    /\ pc' = "spawnSave"
    /\ UNCHANGED <<envVars, i, seqTask, fsVars, wg, workerVars, fault>>

\* Mutant of ParStart: tasksChan is made with the capacity of filesChan.
ParStartWideTasks ==
    /\ ~fault
    /\ pc = "parStart"
    /\ cap' = [files |-> Len(filePaths), tasks |-> Len(filePaths), results |-> numWorkers]
    /\ chan' = [files |-> <<>>, tasks |-> <<>>, results |-> <<>>]
    /\ closed' = [files |-> FALSE, tasks |-> FALSE, results |-> FALSE]
    /\ pc' = "spawnSave"
    /\ UNCHANGED <<envVars, i, seqTask, fsVars, wg, workerVars, fault>>

\* runParallelPipeline is entered: the three channels and the output directory
\* are made.
ParStart ==
    /\ ~fault
    /\ pc = "parStart"
    /\ cap' = [files |-> Len(filePaths), tasks |-> numWorkers, results |-> numWorkers]
    /\ chan' = [files |-> <<>>, tasks |-> <<>>, results |-> <<>>]
    /\ closed' = [files |-> FALSE, tasks |-> FALSE, results |-> FALSE]
    /\ pc' = "spawnSave"
    /\ UNCHANGED <<envVars, i, seqTask, fsVars, wg, workerVars, fault>>

\* wgSave.Add(1); go saveWorker(resultsChan, &wgSave)
SpawnSave ==
    /\ ~fault
    /\ pc = "spawnSave"
    /\ wg' = [wg EXCEPT !.save = @ + 1]
    /\ savePc' = "recv"
    /\ i' = 0
    /\ pc' = "spawnProcess"
    /\ UNCHANGED <<envVars, seqTask, fsVars, chanVars, loadVars, procVars,
                   saveHold, fault>>

\* for i := 0; i < numWorkers; i++ { wgProcess.Add(1); go processWorker(...) }
SpawnProcess ==
    /\ ~fault
    /\ pc = "spawnProcess"
    /\ IF i < numWorkers
       THEN /\ wg' = [wg EXCEPT !.process = @ + 1]
            /\ procPc' = [procPc EXCEPT ![i + 1] = "recv"]
            /\ i' = i + 1
            /\ pc' = pc
       ELSE /\ pc' = "spawnLoad"
            /\ UNCHANGED <<wg, procPc, i>>
    /\ UNCHANGED <<envVars, seqTask, fsVars, chanVars, loadVars, procHold,
                   saveVars, fault>>

\* wgLoad.Add(1); go loadWorker(filesChan, tasksChan, &wgLoad)
SpawnLoad ==
    /\ ~fault
    /\ pc = "spawnLoad"
    /\ wg' = [wg EXCEPT !.load = @ + 1]
    /\ loadPc' = "recv"
    /\ i' = 1
    /\ pc' = "enqueue"
    /\ UNCHANGED <<envVars, seqTask, fsVars, chanVars, loadHold, procVars,
                   saveVars, fault>>

\* for _, path := range filePaths { filesChan <- path }
Enqueue ==
    /\ ~fault
    /\ pc = "enqueue"
    /\ IF i <= Len(filePaths)
       THEN /\ CanSend("files")
            /\ IF closed.files
               THEN /\ fault' = TRUE
                    /\ UNCHANGED <<chan, i>>
               ELSE /\ chan' = [chan EXCEPT !.files = Append(@, filePaths[i])]
                    /\ i' = i + 1
                    /\ UNCHANGED fault
            /\ pc' = pc
       ELSE /\ pc' = "closeFiles"
            /\ UNCHANGED <<chan, i, fault>>
    /\ UNCHANGED <<envVars, seqTask, fsVars, cap, closed, wg, workerVars>>

\* Mutant of CloseFiles: close(filesChan) is forgotten.
CloseFilesForgotten ==
    /\ ~fault
    /\ pc = "closeFiles"
    /\ pc' = "waitLoad"
    /\ UNCHANGED <<envVars, i, seqTask, fsVars, chanVars, wg, workerVars, fault>>

\* close(filesChan)
CloseFiles ==
    /\ ~fault
    /\ pc = "closeFiles"
    /\ closed' = [closed EXCEPT !.files = TRUE]
    /\ pc' = "waitLoad"
    /\ UNCHANGED <<envVars, i, seqTask, fsVars, cap, chan, wg, workerVars, fault>>

\* Mutant of WaitLoad: the orchestrator does not wait for the load worker.
WaitLoadSkipped ==
    /\ ~fault
    /\ pc = "waitLoad"
    /\ pc' = "closeTasks"
    /\ UNCHANGED <<envVars, i, seqTask, fsVars, chanVars, wg, workerVars, fault>>

\* wgLoad.Wait()
WaitLoad ==
    /\ ~fault
    /\ pc = "waitLoad"
    /\ wg.load = 0
    /\ pc' = "closeTasks"
    /\ UNCHANGED <<envVars, i, seqTask, fsVars, chanVars, wg, workerVars, fault>>

\* Mutant of CloseTasks: close(tasksChan) is forgotten.
CloseTasksForgotten ==
    /\ ~fault
    /\ pc = "closeTasks"
    /\ pc' = "waitProcess"
    /\ UNCHANGED <<envVars, i, seqTask, fsVars, chanVars, wg, workerVars, fault>>

\* close(tasksChan)
CloseTasks ==
    /\ ~fault
    /\ pc = "closeTasks"
    /\ closed' = [closed EXCEPT !.tasks = TRUE]
    /\ pc' = "waitProcess"
    /\ UNCHANGED <<envVars, i, seqTask, fsVars, cap, chan, wg, workerVars, fault>>

\* wgProcess.Wait()
WaitProcess ==
    /\ ~fault
    /\ pc = "waitProcess"
    /\ wg.process = 0
    /\ pc' = "closeResults"
    /\ UNCHANGED <<envVars, i, seqTask, fsVars, chanVars, wg, workerVars, fault>>

\* close(resultsChan)
CloseResults ==
    /\ ~fault
    /\ pc = "closeResults"
    /\ closed' = [closed EXCEPT !.results = TRUE]
    /\ pc' = "waitSave"
    /\ UNCHANGED <<envVars, i, seqTask, fsVars, cap, chan, wg, workerVars, fault>>

\* Mutant of WaitSave: the orchestrator does not wait for the save worker.
WaitSaveSkipped ==
    /\ ~fault
    /\ pc = "waitSave"
    /\ pc' = "parEnd"
    /\ UNCHANGED <<envVars, i, seqTask, fsVars, chanVars, wg, workerVars, fault>>

\* wgSave.Wait()
WaitSave ==
    /\ ~fault
    /\ pc = "waitSave"
    /\ wg.save = 0
    /\ pc' = "parEnd"
    /\ UNCHANGED <<envVars, i, seqTask, fsVars, chanVars, wg, workerVars, fault>>

\* duration := time.Since(start); runParallelPipeline returns.
ParEnd ==
    /\ ~fault
    /\ pc = "parEnd"
    /\ pc' = "parReturned"
    /\ UNCHANGED <<envVars, i, seqTask, fsVars, chanVars, wg, workerVars, fault>>

\* main prints its last lines and returns: exit code 0.
MainEnd ==
    /\ ~fault
    /\ pc = "parReturned"
    /\ pc' = "exit"
    /\ UNCHANGED <<envVars, i, seqTask, fsVars, chanVars, wg, workerVars, fault>>

runParallelPipeline ==
    \/ ParStart
    \/ SpawnSave
    \/ SpawnProcess
    \/ SpawnLoad
    \/ Enqueue
    \/ CloseFiles
    \/ WaitLoad
    \/ CloseTasks
    \/ WaitProcess
    \/ CloseResults
    \/ WaitSave
    \/ ParEnd


mainVars == <<pc, i, seqTask>>

\* ---- loadWorker

\* for path := range filesChan: a path is received.
LoadRecv ==
    /\ ~fault
    /\ loadPc = "recv"
    /\ chan.files # <<>>
    /\ chan' = [chan EXCEPT !.files = Tail(@)]
    /\ loadHold' = [FilePath |-> Head(chan.files), Img |-> NoImg]
    /\ hist' = Event("par", Head(chan.files), "loadRecv")
    /\ loadPc' = "decode"
    /\ UNCHANGED <<envVars, mainVars, files, open, log, cap, closed, wg,
                   procVars, saveVars, fault>>

\* Mutant of LoadDecode: a failure returns from loadWorker instead of
\* continuing with the next path.
LoadDecodeReturns ==
    /\ ~fault
    /\ loadPc = "decode"
    /\ LET path == loadHold.FilePath IN
       IF outcome[path] \in {"openfail", "decodefail"}
       THEN /\ log' = Logged("par", path,
                             IF outcome[path] = "openfail" THEN "open" ELSE "decode")
            /\ hist' = Event("par", path, "failed")
            /\ loadHold' = NoTask
            /\ wg' = [wg EXCEPT !.load = @ - 1]
            /\ loadPc' = "done"
       ELSE /\ loadHold' = [loadHold EXCEPT !.Img = Decode(path)]
            /\ hist' = Event("par", path, "decoded")
            /\ loadPc' = "send"
            /\ UNCHANGED <<log, wg>>
    /\ UNCHANGED <<envVars, mainVars, files, open, chanVars, procVars,
                   saveVars, fault>>

\* Mutant of LoadDecode: the continue after a decode failure is missing, so
\* the failed item is forwarded with no image.
LoadDecodeForwardsFailed ==
    /\ ~fault
    /\ loadPc = "decode"
    /\ LET path == loadHold.FilePath IN
       CASE outcome[path] = "openfail" ->
              /\ log' = Logged("par", path, "open")
              /\ hist' = Event("par", path, "failed")
              /\ loadHold' = NoTask
              /\ loadPc' = "recv"
         [] outcome[path] = "decodefail" ->
              /\ log' = Logged("par", path, "decode")
              /\ hist' = Event("par", path, "failed")
              /\ loadPc' = "send"
              /\ UNCHANGED loadHold
         [] OTHER ->
              /\ loadHold' = [loadHold EXCEPT !.Img = Decode(path)]
              /\ hist' = Event("par", path, "decoded")
              /\ loadPc' = "send"
              /\ UNCHANGED log
    /\ UNCHANGED <<envVars, mainVars, files, open, chanVars, wg, procVars,
                   saveVars, fault>>

\* os.Open and image.Decode: either failure is logged and the loop continues.
LoadDecode ==
    /\ ~fault
    /\ loadPc = "decode"
    /\ LET path == loadHold.FilePath IN
       CASE outcome[path] = "openfail" ->
              /\ log' = Logged("par", path, "open")
              /\ hist' = Event("par", path, "failed")
              /\ loadHold' = NoTask
              /\ loadPc' = "recv"
         [] outcome[path] = "decodefail" ->
              /\ log' = Logged("par", path, "decode")
              /\ hist' = Event("par", path, "failed")
              /\ loadHold' = NoTask
              /\ loadPc' = "recv"
         [] OTHER ->
              /\ loadHold' = [loadHold EXCEPT !.Img = Decode(path)]
              /\ hist' = Event("par", path, "decoded")
              /\ loadPc' = "send"
              /\ UNCHANGED log
    /\ UNCHANGED <<envVars, mainVars, files, open, chanVars, wg, procVars,
                   saveVars, fault>>

\* tasksChan <- ImageTask{FilePath: path, Img: img}
LoadSend ==
    /\ ~fault
    /\ loadPc = "send"
    /\ CanSend("tasks")
    /\ IF closed.tasks
       THEN /\ fault' = TRUE
            /\ UNCHANGED <<chan, loadVars, hist>>
       ELSE /\ chan' = [chan EXCEPT !.tasks = Append(@, loadHold)]
            /\ hist' = Event("par", loadHold.FilePath, "loadSent")
            /\ loadHold' = NoTask
            /\ loadPc' = "recv"
            /\ UNCHANGED fault
    /\ UNCHANGED <<envVars, mainVars, files, open, log, cap, closed, wg,
                   procVars, saveVars>>

\* filesChan is closed and empty: the range loop ends, and the deferred
\* wg.Done() runs.
LoadExit ==
    /\ ~fault
    /\ loadPc = "recv"
    /\ chan.files = <<>>
    /\ closed.files
    /\ wg' = [wg EXCEPT !.load = @ - 1]
    /\ loadPc' = "done"
    /\ UNCHANGED <<envVars, mainVars, fsVars, chanVars, loadHold, procVars,
                   saveVars, fault>>

loadWorker ==
    \/ LoadRecv
    \/ LoadDecode
    \/ LoadSend
    \/ LoadExit

\* ---- processWorker

\* Mutant of ProcRecv: the worker reads the head of tasksChan without taking
\* it out of the buffer.
ProcRecvPeek(w) ==
    /\ ~fault
    /\ procPc[w] = "recv"
    /\ chan.tasks # <<>>
    /\ procHold[w] # Head(chan.tasks)
    /\ procHold' = [procHold EXCEPT ![w] = Head(chan.tasks)]
    /\ hist' = Event("par", Head(chan.tasks).FilePath, "procRecv")
    /\ procPc' = [procPc EXCEPT ![w] = "transform"]
    /\ UNCHANGED <<envVars, mainVars, files, open, log, chanVars, wg,
                   loadVars, saveVars, fault>>

\* for task := range tasksChan: a task is received.
ProcRecv(w) ==
    /\ ~fault
    /\ procPc[w] = "recv"
    /\ chan.tasks # <<>>
    /\ chan' = [chan EXCEPT !.tasks = Tail(@)]
    /\ procHold' = [procHold EXCEPT ![w] = Head(chan.tasks)]
    /\ hist' = Event("par", Head(chan.tasks).FilePath, "procRecv")
    /\ procPc' = [procPc EXCEPT ![w] = "transform"]
    /\ UNCHANGED <<envVars, mainVars, files, open, log, cap, closed, wg,
                   loadVars, saveVars, fault>>

\* Mutant of ProcTransform: the sepia filter is applied to the decoded image,
\* not to the grayscale one.
ProcTransformSepiaOnly(w) ==
    /\ ~fault
    /\ procPc[w] = "transform"
    /\ procHold' = [procHold EXCEPT ![w].Img = toSepia(@)]
    /\ hist' = Event2("par", procHold[w].FilePath, "gray", "sepia")
    /\ procPc' = [procPc EXCEPT ![w] = "send"]
    /\ UNCHANGED <<envVars, mainVars, files, open, log, chanVars, wg,
                   loadVars, saveVars, fault>>

\* grayImg := toGrayscale(task.Img); sepiaImg := toSepia(grayImg);
\* task.Img = sepiaImg
ProcTransform(w) ==
    /\ ~fault
    /\ procPc[w] = "transform"
    /\ procHold' = [procHold EXCEPT ![w].Img = toSepia(toGrayscale(@))]
    /\ hist' = Event2("par", procHold[w].FilePath, "gray", "sepia")
    /\ procPc' = [procPc EXCEPT ![w] = "send"]
    /\ UNCHANGED <<envVars, mainVars, files, open, log, chanVars, wg,
                   loadVars, saveVars, fault>>

\* resultsChan <- task
ProcSend(w) ==
    /\ ~fault
    /\ procPc[w] = "send"
    /\ CanSend("results")
    /\ IF closed.results
       THEN /\ fault' = TRUE
            /\ UNCHANGED <<chan, procVars, hist>>
       ELSE /\ chan' = [chan EXCEPT !.results = Append(@, procHold[w])]
            /\ hist' = Event("par", procHold[w].FilePath, "procSent")
            /\ procHold' = [procHold EXCEPT ![w] = NoTask]
            /\ procPc' = [procPc EXCEPT ![w] = "recv"]
            /\ UNCHANGED fault
    /\ UNCHANGED <<envVars, mainVars, files, open, log, cap, closed, wg,
                   loadVars, saveVars>>

\* Mutant of ProcExit: the worker leaves its loop as soon as tasksChan is
\* closed, whatever the buffer still holds.
ProcExitUndrained(w) ==
    /\ ~fault
    /\ procPc[w] = "recv"
    /\ closed.tasks
    /\ wg' = [wg EXCEPT !.process = @ - 1]
    /\ procPc' = [procPc EXCEPT ![w] = "done"]
    /\ UNCHANGED <<envVars, mainVars, fsVars, chanVars, loadVars, procHold,
                   saveVars, fault>>

\* tasksChan is closed and empty: the range loop ends, and the deferred
\* wg.Done() runs.
ProcExit(w) ==
    /\ ~fault
    /\ procPc[w] = "recv"
    /\ chan.tasks = <<>>
    /\ closed.tasks
    /\ wg' = [wg EXCEPT !.process = @ - 1]
    /\ procPc' = [procPc EXCEPT ![w] = "done"]
    /\ UNCHANGED <<envVars, mainVars, fsVars, chanVars, loadVars, procHold,
                   saveVars, fault>>

processWorker(w) ==
    \/ ProcRecv(w)
    \/ ProcTransform(w)
    \/ ProcSend(w)
    \/ ProcExit(w)

\* ---- saveWorker

\* for task := range resultsChan: a task is received.
SaveRecv ==
    /\ ~fault
    /\ savePc = "recv"
    /\ chan.results # <<>>
    /\ chan' = [chan EXCEPT !.results = Tail(@)]
    /\ saveHold' = Head(chan.results)
    /\ hist' = Event("par", Head(chan.results).FilePath, "saveRecv")
    /\ savePc' = "create"
    /\ UNCHANGED <<envVars, mainVars, files, open, log, cap, closed, wg,
                   loadVars, procVars, fault>>

\* Mutant of SaveCreate: a failure returns from saveWorker instead of
\* continuing with the next task.
SaveCreateReturns ==
    /\ ~fault
    /\ savePc = "create"
    /\ LET path == saveHold.FilePath
           outputPath == Join(ParDir, Base(path))
       IN  IF outcome[path] = "createfail"
           THEN /\ log' = Logged("par", path, "create")
                /\ hist' = Event("par", path, "failed")
                /\ saveHold' = NoTask
                /\ savePc' = "deferred"
                /\ UNCHANGED <<files, open>>
           ELSE /\ files' = [files EXCEPT ![outputPath] =
                                [exists |-> TRUE, img |-> NoImg, complete |-> FALSE]]
                /\ open' = [open EXCEPT !["par"] = @ \cup {outputPath}]
                /\ hist' = Event("par", path, "created")
                /\ savePc' = "encode"
                /\ UNCHANGED <<log, saveHold>>
    /\ UNCHANGED <<envVars, mainVars, chanVars, wg, loadVars, procVars, fault>>

\* Mutant of SaveCreate: the output file is opened for appending, without
\* truncating what it holds.
SaveCreateNoTruncate ==
    /\ ~fault
    /\ savePc = "create"
    /\ LET path == saveHold.FilePath
           outputPath == Join(ParDir, Base(path))
       IN  IF outcome[path] = "createfail"
           THEN /\ log' = Logged("par", path, "create")
                /\ hist' = Event("par", path, "failed")
                /\ saveHold' = NoTask
                /\ savePc' = "recv"
                /\ UNCHANGED <<files, open>>
           ELSE /\ files' = [files EXCEPT ![outputPath] =
                                [exists |-> TRUE, img |-> @.img, complete |-> FALSE]]
                /\ open' = [open EXCEPT !["par"] = @ \cup {outputPath}]
                /\ hist' = Event("par", path, "created")
                /\ savePc' = "encode"
                /\ UNCHANGED <<log, saveHold>>
    /\ UNCHANGED <<envVars, mainVars, chanVars, wg, loadVars, procVars, fault>>

\* os.Create of the output path: a failure is logged and the loop continues;
\* otherwise the file exists, empty and open, and its Close is deferred.
SaveCreate ==
    /\ ~fault
    /\ savePc = "create"
    /\ LET path == saveHold.FilePath
           outputPath == Join(ParDir, Base(path))
       IN  IF outcome[path] = "createfail"
           THEN /\ log' = Logged("par", path, "create")
                /\ hist' = Event("par", path, "failed")
                /\ saveHold' = NoTask
                /\ savePc' = "recv"
                /\ UNCHANGED <<files, open>>
           ELSE /\ files' = [files EXCEPT ![outputPath] =
                                [exists |-> TRUE, img |-> NoImg, complete |-> FALSE]]
                /\ open' = [open EXCEPT !["par"] = @ \cup {outputPath}]
                /\ hist' = Event("par", path, "created")
                /\ savePc' = "encode"
                /\ UNCHANGED <<log, saveHold>>
    /\ UNCHANGED <<envVars, mainVars, chanVars, wg, loadVars, procVars, fault>>

\* Mutant of SaveEncode: the output file is closed after its encoding, as
\* runSequential does.
SaveEncodeCloses ==
    /\ ~fault
    /\ savePc = "encode"
    /\ LET path == saveHold.FilePath
           outputPath == Join(ParDir, Base(path))
       IN  /\ IF outcome[path] = "encodefail"
              THEN /\ files' = [files EXCEPT ![outputPath] =
                                   [exists |-> TRUE, img |-> @.img \o saveHold.Img,
                                    complete |-> FALSE]]
                   /\ log' = Logged("par", path, "encode")
                   /\ hist' = Event("par", path, "failed")
              ELSE /\ files' = [files EXCEPT ![outputPath] =
                                   [exists |-> TRUE, img |-> @.img \o saveHold.Img,
                                    complete |-> TRUE]]
                   /\ hist' = Event("par", path, "encoded")
                   /\ UNCHANGED log
           /\ open' = [open EXCEPT !["par"] = @ \ {outputPath}]
    /\ saveHold' = NoTask
    /\ savePc' = "recv"
    /\ UNCHANGED <<envVars, mainVars, chanVars, wg, loadVars, procVars, fault>>

\* jpeg.Encode(outFile, task.Img, nil) writes after what the file holds, which
\* is nothing after os.Create; a failure is logged.
SaveEncode ==
    /\ ~fault
    /\ savePc = "encode"
    /\ LET path == saveHold.FilePath
           outputPath == Join(ParDir, Base(path))
       IN  IF outcome[path] = "encodefail"
           THEN /\ files' = [files EXCEPT ![outputPath] =
                                [exists |-> TRUE, img |-> @.img \o saveHold.Img, complete |-> FALSE]]
                /\ log' = Logged("par", path, "encode")
                /\ hist' = Event("par", path, "failed")
           ELSE /\ files' = [files EXCEPT ![outputPath] =
                                [exists |-> TRUE, img |-> @.img \o saveHold.Img, complete |-> TRUE]]
                /\ hist' = Event("par", path, "encoded")
                /\ UNCHANGED log
    /\ saveHold' = NoTask
    /\ savePc' = "recv"
    /\ UNCHANGED <<envVars, mainVars, open, chanVars, wg, loadVars, procVars, fault>>

\* resultsChan is closed and empty: the range loop ends.
SaveExit ==
    /\ ~fault
    /\ savePc = "recv"
    /\ chan.results = <<>>
    /\ closed.results
    /\ savePc' = "deferred"
    /\ UNCHANGED <<envVars, mainVars, fsVars, chanVars, wg, loadVars, procVars,
                   saveHold, fault>>

\* The deferred outFile.Close() calls run, last deferred first.
SaveCloseFiles ==
    /\ ~fault
    /\ savePc = "deferred"
    /\ open' = [open EXCEPT !["par"] = {}]
    /\ savePc' = "wgDone"
    /\ UNCHANGED <<envVars, mainVars, files, log, hist, chanVars, wg, loadVars,
                   procVars, saveHold, fault>>

\* The deferred wg.Done() runs: it was deferred first, so it runs last.
SaveDone ==
    /\ ~fault
    /\ savePc = "wgDone"
    /\ wg' = [wg EXCEPT !.save = @ - 1]
    /\ savePc' = "done"
    /\ UNCHANGED <<envVars, mainVars, fsVars, chanVars, loadVars, procVars,
                   saveHold, fault>>

saveWorker ==
    \/ SaveRecv
    \/ SaveCreate
    \/ SaveEncode
    \/ SaveExit
    \/ SaveCloseFiles
    \/ SaveDone

\* ------------------------------------------------------ the specification

\* A panic in any goroutine ends the process: every step is guarded by ~fault.
mainGoroutine ==
    \/ runSequential
    \/ runParallelPipeline
    \/ MainEnd

Next ==
    \/ mainGoroutine
    \/ loadWorker
    \/ \E w \in Workers : processWorker(w)
    \/ saveWorker

Spec == Init /\ [][Next]_vars

\* Go's scheduler does not stop while some goroutine can take a step.  (This
\* is implied by weak fairness of each goroutine, and weaker than it.)
Fairness == WF_vars(Next)

FairSpec == Spec /\ Fairness


\* ---- the program run a second time

\* The process has exited and the program is started again on the same input
\* directory: a new process, the file system as the first run left it.
Restart ==
    /\ pc = "exit"
    /\ run = 1
    /\ run' = 2
    /\ firstFiles' = files
    /\ pc' = "seqStart"
    /\ i' = 0
    /\ seqTask' = NoTask
    /\ open' = [m \in Modes |-> {}]
    /\ log' = [k \in Modes \X Paths |-> <<>>]
    /\ hist' = [k \in Modes \X Paths |-> <<>>]
    /\ cap' = [files |-> 0, tasks |-> 0, results |-> 0]
    /\ chan' = [files |-> <<>>, tasks |-> <<>>, results |-> <<>>]
    /\ closed' = [files |-> FALSE, tasks |-> FALSE, results |-> FALSE]
    /\ wg' = [load |-> 0, process |-> 0, save |-> 0]
    /\ loadPc' = "unstarted"
    /\ loadHold' = NoTask
    /\ procPc' = [w \in Workers |-> "unstarted"]
    /\ procHold' = [w \in Workers |-> NoTask]
    /\ savePc' = "unstarted"
    /\ saveHold' = NoTask
    /\ fault' = FALSE
    /\ UNCHANGED <<filePaths, outcome, numWorkers, files>>

NextRerun ==
    \/ Next
    \/ Restart

SpecRerun == Init /\ [][NextRerun]_vars

\* ---- a burst of decodable files

\* More files than the pipeline can hold at once, all of which load and save.
InitBurst ==
    /\ \E n \in 0..MaxBurst : filePaths = Glob(n)
    /\ outcome = [p \in Paths |-> "ok"]
    /\ numWorkers \in 1..FewWorkers
    /\ FirstRun
    /\ Fresh

SpecBurst == InitBurst /\ [][Next]_vars

\* ---- runParallelPipeline called with any worker count

\* main passes numCPU, which is at least 1; here runParallelPipeline is also
\* called with numWorkers = 0, which makes tasksChan and resultsChan
\* unbuffered and starts no process worker.
InitAnyWorkers ==
    /\ \E n \in 0..MaxFiles : filePaths = Glob(n)
    /\ outcome \in [Paths -> Outcomes]
    /\ numWorkers \in 0..FewWorkers
    /\ FirstRun
    /\ Fresh

FairSpecAnyWorkers == InitAnyWorkers /\ [][Next]_vars /\ Fairness

\* ------------------------------------------------- vocabulary of the claims
Has(mode, path, ev) ==
    \E k \in DOMAIN hist[<<mode, path>>] : hist[<<mode, path>>][k] = ev

Count(mode, path, ev) ==
    Cardinality({k \in DOMAIN hist[<<mode, path>>] : hist[<<mode, path>>][k] = ev})

OutFile(mode, path) == files[Join(OutDir(mode), Base(path))]

\* The runner of the mode has just returned.
Returned(mode) == IF mode = "seq" THEN pc = "seqEnd" ELSE pc = "parReturned"

LoadFails == {"openfail", "decodefail"}
SaveFails == {"createfail", "encodefail"}

AllProcessDone == \A w \in Workers : procPc[w] = "done"
SaveLoopLeft == savePc \in {"deferred", "wgDone", "done"}

\* ------------------------------------------------------------------ C1
\* C1: under fair scheduling runParallelPipeline returns, for every list of
\* paths, every worker count >= 1 and every mix of per-file outcomes; until
\* it has, some goroutine can take a step (no deadlock).
C1_Terminates ==
    /\ [](pc \in {"parReturned", "exit"} \/ ENABLED Next)
    /\ <>(pc = "parReturned")

C1_Witness ==
    /\ pc = "parReturned"
    /\ Len(filePaths) >= 2
    /\ \E p, q \in Paths : outcome[p] = "ok" /\ outcome[q] # "ok"

\* ------------------------------------------------------------------ C2
\* C2: no send is ever attempted on a closed channel; tasksChan is closed
\* only after the load worker has left its loop, and resultsChan only after
\* every process worker has left its loop.
C2_NoSendOnClosed ==
    /\ ~fault
    /\ closed.tasks => loadPc = "done"
    /\ closed.results => AllProcessDone

C2_Witness ==
    /\ closed.tasks
    /\ closed.results
    /\ numWorkers >= 2
    /\ \E p \in Paths : Has("par", p, "procSent")

\* ------------------------------------------------------------------ C3
\* C3: the stage completions of a parallel run are ordered: the load worker
\* finishes before any process worker does, all process workers finish before
\* the save worker leaves its loop, the save worker finishes before the run is
\* finalized, and at the return none of the numWorkers + 2 goroutines runs.
C3_CompletionOrder ==
    /\ (\E w \in Workers : procPc[w] = "done") => loadPc = "done"
    /\ SaveLoopLeft => AllProcessDone
    /\ pc \in {"parEnd", "parReturned", "exit"} =>
          /\ loadPc = "done"
          /\ AllProcessDone
          /\ savePc = "done"
          /\ wg = [load |-> 0, process |-> 0, save |-> 0]

C3_Witness ==
    /\ pc = "parReturned"
    /\ numWorkers >= 2
    /\ \E p \in Paths : Has("par", p, "encoded")

\* ------------------------------------------------------------------ C4
\* C4: when a runner returns, every path has exactly one terminal outcome:
\* its output file is written, or its failure is logged, never both and
\* never neither.
C4_ExactlyOneOutcome ==
    \A mode \in Modes : Returned(mode) =>
        \A p \in Paths :
            /\ (OutFile(mode, p).complete) # (log[<<mode, p>>] # <<>>)
            /\ Len(log[<<mode, p>>]) <= 1

\* ------------------------------------------------------------------ C5
\* C5: when the parallel run returns, for every worker count, each output
\* of the parallel run equals the output of the sequential run for the same
\* base name, and a written output holds sepia(grayscale(decoded image)).
C5_SameOutputs ==
    pc = "parReturned" =>
        \A p \in Paths :
            /\ OutFile("par", p) = OutFile("seq", p)
            /\ OutFile("par", p).complete =>
                  OutFile("par", p).img = toSepia(toGrayscale(Decode(p)))
            /\ OutFile("par", p).exists <=> outcome[p] \in {"ok", "encodefail"}

C5_Witness ==
    /\ pc = "parReturned"
    /\ numWorkers = 1
    /\ Len(filePaths) >= 2
    /\ \A p \in Paths : OutFile("par", p).complete

\* ------------------------------------------------------------------ C6
\* C6: when a runner returns, an output file exists for an item only if the
\* item was created and encoded successfully.
C6_NoPartialWrites ==
    \A mode \in Modes : Returned(mode) =>
        \A p \in Paths : OutFile(mode, p).exists => outcome[p] = "ok"

\* ------------------------------------------------------------------ C7
\* C7: for each failure kind, an item is reported as failed by the
\* sequential run if and only if it is reported as failed by the parallel run.
C7_SameFailureReports ==
    pc = "parReturned" =>
        \A p \in Paths : log[<<"seq", p>>] = log[<<"par", p>>]

\* ------------------------------------------------------------------ C8
\* C8: a path whose open or decode fails is never forwarded to tasksChan, and
\* the load worker leaves its loop only when filesChan is closed and empty,
\* having received and attempted every path exactly once.
C8_LoadContinues ==
    /\ \A p \in Paths : outcome[p] \in LoadFails =>
          /\ ~Has("par", p, "loadSent")
          /\ \A k \in DOMAIN chan.tasks : chan.tasks[k].FilePath # p
    /\ loadPc = "done" =>
          /\ closed.files
          /\ chan.files = <<>>
          /\ pc \notin {"enqueue", "closeFiles"}
          /\ \A p \in Paths :
                /\ Count("par", p, "loadRecv") = 1
                /\ IF outcome[p] \in LoadFails
                   THEN Len(log[<<"par", p>>]) = 1
                   ELSE Count("par", p, "loadSent") = 1

C8_Witness ==
    /\ loadPc = "done"
    /\ \E k, j \in DOMAIN filePaths :
          /\ k < j
          /\ outcome[filePaths[k]] \in LoadFails
          /\ Has("par", filePaths[j], "loadSent")

\* ------------------------------------------------------------------ C9
\* C9: a create or encode failure is logged against its item and the save
\* worker goes on: it leaves its loop only when resultsChan is closed and
\* empty, having received every item sent to it.
C9_SaveContinues ==
    /\ \A p \in Paths :
          (Has("par", p, "saveRecv") /\ saveHold.FilePath # p) =>
              IF outcome[p] = "createfail" THEN log[<<"par", p>>] = <<"create">>
              ELSE IF outcome[p] = "encodefail" THEN log[<<"par", p>>] = <<"encode">>
              ELSE log[<<"par", p>>] = <<>>
    /\ SaveLoopLeft =>
          /\ closed.results
          /\ chan.results = <<>>
          /\ \A p \in Paths :
                /\ Count("par", p, "saveRecv") = Count("par", p, "procSent")
                /\ outcome[p] \notin LoadFails => Count("par", p, "saveRecv") = 1

C9_Witness ==
    /\ savePc = "done"
    /\ numWorkers = 1
    /\ \E k, j \in DOMAIN filePaths :
          /\ k < j
          /\ outcome[filePaths[k]] \in SaveFails
          /\ Has("par", filePaths[j], "saveRecv")


\* ------------------------------------------------------------------ C11
\* The life of one item, as the events of its stages in order.
IsPrefix(a, b) == Len(a) <= Len(b) /\ a = SubSeq(b, 1, Len(a))

Lifecycles(mode) ==
    IF mode = "seq"
    THEN { <<"failed">>,
           <<"decoded", "gray", "sepia", "failed">>,
           <<"decoded", "gray", "sepia", "created", "encodeError">>,
           <<"decoded", "gray", "sepia", "created", "encoded">> }
    ELSE { <<"loadRecv", "failed">>,
           <<"loadRecv", "decoded", "loadSent", "procRecv", "gray", "sepia",
             "procSent", "saveRecv", "failed">>,
           <<"loadRecv", "decoded", "loadSent", "procRecv", "gray", "sepia",
             "procSent", "saveRecv", "created", "failed">>,
           <<"loadRecv", "decoded", "loadSent", "procRecv", "gray", "sepia",
             "procSent", "saveRecv", "created", "encoded">> }

\* C11: in both runners an item only moves forward: decoded, then grayscale,
\* then sepia, then created and encoded, or failed as its last event; no stage
\* handles it twice, nothing follows its being persisted or failed, and an
\* output file exists only for an item that was transformed.
C11_ForwardOnly ==
    \A mode \in Modes : \A p \in Paths :
        /\ \E life \in Lifecycles(mode) : IsPrefix(hist[<<mode, p>>], life)
        /\ OutFile(mode, p).exists => Has(mode, p, "sepia")
        /\ OutFile(mode, p).complete => Has(mode, p, "encoded")

C11_Witness ==
    /\ pc = "parReturned"
    /\ \E p, q \in Paths :
          /\ Has("par", p, "encoded") /\ Has("seq", p, "encoded")
          /\ outcome[q] = "createfail"
          /\ Has("par", q, "failed") /\ Has("seq", q, "failed")


\* ------------------------------------------------------------------ C12
\* The places of the parallel pipeline that hold the item of a path.
InChan(c, p) ==
    Cardinality({k \in DOMAIN chan[c] :
                    IF c = "files" THEN chan[c][k] = p ELSE chan[c][k].FilePath = p})

Holds(task, p) == IF task.FilePath = p THEN 1 ELSE 0

ProcHolders(p) == Cardinality({w \in Workers : procHold[w].FilePath = p})

Holders(p) ==
    InChan("files", p) + Holds(loadHold, p) + InChan("tasks", p)
    + ProcHolders(p) + InChan("results", p) + Holds(saveHold, p)

\* The orchestrator has sent the path on filesChan.
Enqueued(p) ==
    \/ pc = "enqueue" /\ \E k \in 1..(i - 1) : filePaths[k] = p
    \/ pc \in {"closeFiles", "waitLoad", "closeTasks", "waitProcess",
               "closeResults", "waitSave", "parEnd", "parReturned", "exit"}

\* C12: in the parallel pipeline every item is in at most one place (the load
\* worker, one process worker, the save worker or one channel slot), in exactly
\* one from its enqueueing until a stage fails it or persists it; no item is
\* received by two process workers, and a stage that has sent an item holds
\* it no more.
C12_OneHolder ==
    \A p \in Paths :
        /\ Holders(p) <= 1
        /\ Count("par", p, "procRecv") <= 1
        /\ (Holders(p) = 1) <=>
              /\ Enqueued(p)
              /\ ~Has("par", p, "failed")
              /\ ~Has("par", p, "encoded")
        /\ Has("par", p, "loadSent") => loadHold.FilePath # p
        /\ Has("par", p, "procSent") => ProcHolders(p) = 0

C12_Witness ==
    /\ \E w, v \in Workers :
          /\ procHold[w] # NoTask
          /\ procHold[v] # NoTask
          /\ procHold[w].FilePath # procHold[v].FilePath
    /\ loadPc = "recv"


\* ------------------------------------------------------------------ C13
\* C13: a process worker that has exited leaves tasksChan closed and empty,
\* the save worker that has left its loop leaves resultsChan closed and empty,
\* and when runParallelPipeline returns the three channels are closed and
\* empty and no goroutine holds an item.
C13_Drained ==
    /\ \A w \in Workers : procPc[w] = "done" =>
          closed.tasks /\ chan.tasks = <<>> /\ procHold[w] = NoTask
    /\ SaveLoopLeft => closed.results /\ chan.results = <<>> /\ saveHold = NoTask
    /\ pc = "parReturned" =>
          /\ closed = [files |-> TRUE, tasks |-> TRUE, results |-> TRUE]
          /\ chan = [files |-> <<>>, tasks |-> <<>>, results |-> <<>>]
          /\ loadHold = NoTask
          /\ \A p \in Paths : Holders(p) = 0

\* One process worker has exited while another still holds a transformed
\* item and resultsChan still buffers one.
C13_Witness ==
    /\ \E w, v \in Workers : procPc[w] = "done" /\ procPc[v] = "send"
    /\ chan.results # <<>>
    /\ closed.tasks


\* ------------------------------------------------------------------ C14
\* C14: a second run on the same paths with the same per-file outcomes leaves
\* the output files of each runner, and their contents, as the first run left
\* them.
C14_Idempotent ==
    /\ (run = 2 /\ pc = "seqEnd") =>
          \A p \in Paths : OutFile("seq", p) = firstFiles[Join(SeqDir, Base(p))]
    /\ (run = 2 /\ pc \in {"parReturned", "exit"}) => files = firstFiles

C14_Witness ==
    /\ run = 2
    /\ pc = "exit"
    /\ \E p, q \in Paths :
          /\ firstFiles[Join(ParDir, Base(p))].complete
          /\ Has("par", p, "encoded")
          /\ ~firstFiles[Join(ParDir, Base(q))].exists


\* ------------------------------------------------------------------ C15
\* No goroutine of the pipeline has received anything, and nothing was
\* written or logged.
NothingHandled ==
    /\ ~fault
    /\ \A o \in DOMAIN files : ~files[o].exists
    /\ open = [m \in Modes |-> {}]
    /\ \A k \in DOMAIN log : log[k] = <<>>
    /\ chan = [files |-> <<>>, tasks |-> <<>>, results |-> <<>>]
    /\ pc \notin {"seqLoad", "seqTransform", "seqCreate", "seqEncode", "seqClose"}
    /\ loadPc \in {"unstarted", "recv", "done"} /\ loadHold = NoTask
    /\ \A w \in Workers : procPc[w] \in {"unstarted", "recv", "done"} /\ procHold[w] = NoTask
    /\ savePc \in {"unstarted", "recv", "deferred", "wgDone", "done"} /\ saveHold = NoTask

\* C15: with no path, both runners return, the load, process and save workers
\* exit without having received an item, no output file is created, and main
\* reaches its end.
C15_EmptyRun ==
    /\ [](filePaths = <<>> =>
            /\ NothingHandled
            /\ pc = "exit" => loadPc = "done" /\ AllProcessDone /\ savePc = "done")
    /\ (filePaths = <<>>) => <>(pc = "exit")

C15_Witness ==
    /\ filePaths = <<>>
    /\ pc = "exit"
    /\ numWorkers >= 2
    /\ cap.files = 0


\* ------------------------------------------------------------------ C16
\* The channels have been made.
Constructed ==
    pc \in {"spawnSave", "spawnProcess", "spawnLoad", "enqueue", "closeFiles",
            "waitLoad", "closeTasks", "waitProcess", "closeResults", "waitSave",
            "parEnd", "parReturned", "exit"}

\* C16: once made, the capacities are len(filePaths), numWorkers and
\* numWorkers and never change, and no channel ever buffers more than its
\* capacity.
C16_FixedCapacities ==
    /\ [](/\ Len(chan.files) <= cap.files
          /\ Len(chan.tasks) <= cap.tasks
          /\ Len(chan.results) <= cap.results
          /\ Constructed =>
                cap = [files |-> Len(filePaths), tasks |-> numWorkers,
                       results |-> numWorkers])
    /\ [][pc # "parStart" => cap' = cap]_vars

\* tasksChan is full and the load worker waits to send the next item.
C16_Witness ==
    /\ Len(chan.tasks) = cap.tasks
    /\ cap.tasks >= 1
    /\ loadPc = "send"
    /\ ~ENABLED loadWorker

\* ------------------------------------------------------------------ C17
\* C17: filesChan is closed only after every path was sent on it, and the
\* orchestrator's sends never block: while it is enqueuing, its next step is
\* enabled, whatever the load worker has done.
C17_EnqueueNeverBlocks ==
    /\ ~fault
    /\ closed.files =>
          \A p \in Paths : InChan("files", p) + Count("par", p, "loadRecv") = 1
    /\ pc \in {"enqueue", "closeFiles"} => ~closed.files /\ ENABLED mainGoroutine

\* filesChan is closed with every path still in it: the load worker has not
\* received one.
C17_Witness ==
    /\ closed.files
    /\ chan.files = filePaths
    /\ Len(filePaths) >= 2
    /\ loadPc = "recv"

\* ------------------------------------------------------------------ C18
\* The items that are decoded and not yet persisted or failed.
InFlight ==
    (IF loadPc = "send" THEN 1 ELSE 0)
    + Len(chan.tasks)
    + Cardinality({w \in Workers : procHold[w] # NoTask})
    + Len(chan.results)
    + (IF saveHold # NoTask THEN 1 ELSE 0)

\* C18: at most 3 * numWorkers + 2 items are decoded and not yet persisted,
\* however many paths there are.
C18_BoundedInFlight == InFlight <= 3 * numWorkers + 2

\* The bound is met while paths are still waiting in filesChan.
C18_Witness ==
    /\ InFlight = 3 * numWorkers + 2
    /\ chan.files # <<>>


\* ------------------------------------------------------------------ C19
\* The output files the save worker has created so far.
CreatedSoFar == {Join(ParDir, Base(p)) : p \in {q \in Paths : Has("par", q, "created")}}

\* C19: until the save worker has left its loop and run its deferred calls,
\* every output file it created is still open; all are closed before its
\* wg.Done(), hence before runParallelPipeline returns.  runSequential has at
\* most one output file open, and only between its create and its close.
C19_OpenFiles ==
    /\ savePc \in {"unstarted", "recv", "create", "encode", "deferred"} =>
          open["par"] = CreatedSoFar
    /\ savePc \in {"wgDone", "done"} => open["par"] = {}
    /\ pc \in {"parEnd", "parReturned", "exit"} => open["par"] = {}
    /\ Cardinality(open["seq"]) <= 1
    /\ pc \notin {"seqEncode", "seqClose"} => open["seq"] = {}

\* The save worker is in its loop with two output files open.
C19_Witness ==
    /\ savePc = "recv"
    /\ Cardinality(open["par"]) >= 2


\* ------------------------------------------------------------------ C20
\* Some path opens and decodes.
Decodable == \E p \in Paths : outcome[p] \notin LoadFails

\* The load worker waits to send, the orchestrator waits for the load worker,
\* and no goroutine can take a step.
StuckOnTasks ==
    /\ loadPc = "send"
    /\ pc = "waitLoad"
    /\ ~ENABLED Next

\* C20: with numWorkers = 0 and a decodable path, the load worker blocks for
\* ever on its send on tasksChan, the orchestrator for ever on wgLoad.Wait(),
\* and runParallelPipeline never returns; with numWorkers = 0 and no decodable
\* path it returns.
C20_ZeroWorkers ==
    /\ []((numWorkers = 0 /\ Decodable) =>
            /\ loadPc # "done"
            /\ ~closed.tasks
            /\ pc \notin {"closeTasks", "waitProcess", "closeResults", "waitSave",
                         "parEnd", "parReturned", "exit"})
    /\ (numWorkers = 0 /\ Decodable) => <>[]StuckOnTasks
    /\ (numWorkers = 0 /\ ~Decodable) => <>(pc = "parReturned")

C20_Witness ==
    /\ numWorkers = 0
    /\ Len(filePaths) >= 2
    /\ StuckOnTasks
    /\ chan.files # <<>>

====
